---- MODULE Spec2Model ----
(***************************************************************************)
(* InstantPriceMatch: the visual index (CLIP vectors + row-aligned         *)
(* metadata), the scripts that build it and the scripts that search it.    *)
(*                                                                         *)
(* Vectors are pairs of integers scaled by Scale (1000 stands for 1.0), a  *)
(* similarity score is the integer dot product (scaled by Scale^2).        *)
(* A metadata row is the code (barcode) of the image the row names.        *)
(* Rows are numbered from 1 (NumPy row i is row i+1 here).                 *)
(*                                                                         *)
(* The live scanners (ui_app, dev_live_scan, dev_live_scan_cv) are modelled *)
(* by their threads: the main loop, the vision worker and the price-lookup *)
(* threads, over the module globals they share.                            *)
(***************************************************************************)
EXTENDS Integers, Sequences, FiniteSets, TLC

\* ------------------------------------------------------------------ bounds
MaxRows == 3        \* most rows of an index drawn as a search input
MaxK == 4           \* largest topk drawn as a search input
MaxItems == 3       \* most catalog images handed to one builder run
BatchSize == 2      \* images per embedding batch (32 in the source)
MaxTime == 8        \* seconds of live scanning followed
MaxScans == 3       \* most price matches of one ui_app session followed
MaxFeatRows == 2    \* most rows of a feature file handed to build_faiss_index
MAX_LIST_ITEMS == 1 \* most keys kept in history_order (12 in the source)

\* --------------------------------------------------------------- constants
Scale == 1000       \* fixed-point scale: 1000 = 1.0
IndexDim == 2       \* dimension D of the index vectors (512 in the source)
COOLDOWN_SEC == 8   \* dev_live_scan_cv: seconds between two captures of a key
HITS_NEEDED == 2    \* live scanners: consecutive matches to treat as a lock
DEBOUNCE_SECONDS == 5   \* ui_app: seconds before the same UPC is matched again
Missing == [exists |-> FALSE, rows |-> << >>]   \* a file that does not exist
File(rows) == [exists |-> TRUE, rows |-> rows]     \* a file holding rows

FileNames == { "clip_vectors", "clip_meta", "clip_feats", "clip_feats_norm",
               "idx_vectors", "idx_meta" }

Vectors == { <<1000, 0>>, <<0, 1000>>, <<707, 707>> }
\* the embedding of the query photo; << >> stands for a photo that cannot be
\* decoded (no embedding is produced)
Queries == Vectors \cup { <<1000, 0, 0>>, << >> }

VARIABLES
    clip_vectors,   \* embeddings/clip_vectors.npy   : Missing or File(vectors)
    clip_meta,      \* embeddings/clip_meta.parquet  : Missing or File(codes)
    clip_feats,     \* embeddings/clip_feats.npy     : Missing or File(vectors)
    clip_feats_norm,\* embeddings/clip_feats_norm.npy: Missing or File(vectors)
    idx_vectors,    \* index/vectors_norm.npy        : Missing or File(vectors)
    idx_meta,       \* index/clip_meta.parquet       : Missing or File(codes)
    q,              \* the query vector (embedding of the query photo)
    topk,           \* the requested number of matches
    result,         \* what the call just made returned: [impl, status, rows]
    builder,        \* the builder script of the current run
    pc,             \* where that run is
    items,          \* its list of catalog images: [code, readable]
    i,              \* images taken from the list so far
    batch,          \* codes of the images in the pending batch
    feats,          \* list of embedded batches (arrays of vectors)
    metas,          \* metadata rows collected so far
    writer,         \* for each file, who wrote it: "none", an "earlier" run, this "run"
    prev,           \* clip_meta.parquet as it was when the builder was run again
    clock,          \* time.time() of the live scanner, in seconds
    last_commit_ts, \* dev_live_scan_cv: key -> last capture timestamp (0 when absent)
    commits,        \* dev_live_scan_cv: the _ensure_entry calls made: [key, ts]
    mainloop,       \* the main loop: [pc, now_ts, key]
    worker,         \* the vision worker thread: [pc, key, now_ts, last_ts]
    glob,           \* the module globals of the live scanner that runs
    lookups,        \* the _price_lookup_thread threads running, by where they are
    seen,           \* what has happened: [upc_streak, looked_up]
    ss_running,     \* ui_app: st.session_state["scanner_running"]
    ss_last_upc,    \* ui_app: st.session_state["last_upc"]
    ss_last_seen_ts,\* ui_app: st.session_state["last_seen_ts"]
    ss_scans,       \* ui_app: st.session_state["scans"], as [upc, ts]
    price_matches,  \* ui_app: the run_price_match_upc calls made: [upc, ts]
    embeddings_npz, \* visual_index/embeddings.npz: [exists, rows (embeddings), ids]
    catalog_csv,    \* visual_index/catalog.csv    : Missing or File(codes)
    faiss_index,    \* embeddings/faiss.index      : Missing or File(vectors)
    faiss_meta      \* embeddings/faiss.meta.json  : [exists, num_items]

files == << clip_vectors, clip_meta, clip_feats, clip_feats_norm, idx_vectors, idx_meta >>
query == << q, topk >>
locals == << builder, pc, items, i, batch, feats, metas >>
scan == << clock, last_commit_ts, commits, mainloop, worker, glob, lookups, seen >>
ui == << ss_running, ss_last_upc, ss_last_seen_ts, ss_scans, price_matches >>
watcher == << embeddings_npz, catalog_csv >>
faissfiles == << faiss_index, faiss_meta >>
more == << ui, watcher, faissfiles >>
vars == << files, query, result, locals, writer, prev, scan, more >>

\* ------------------------------------------------------------------ helpers
Min(a, b) == IF a < b THEN a ELSE b

Range(s) == { s[j] : j \in 1..Len(s) }

Take(s, n) == SubSeq(s, 1, Min(n, Len(s)))

\* the index arrays of n rows: the permutations of 1..n
PermTable ==
    [n \in 0..MaxRows |->
        { p \in [1..n -> 1..n] : \A a, b \in 1..n : a # b => p[a] # p[b] }]

Perms(n) == PermTable[n]

SeqsUpTo(S, n) == UNION { [1..m -> S] : m \in 0..n }

\* ---------------------------------------------------------- NumPy primitives
Dot(u, v) == IF Len(u) = 0 THEN 0
             ELSE LET F[j \in 1..Len(u)] ==
                        u[j] * v[j] + (IF j = 1 THEN 0 ELSE F[j - 1])
                  IN  F[Len(u)]

\* Image.open(image_path).convert("RGB") raises for an unreadable photo.
EmbedImageRaises(qv) == Len(qv) = 0

\* a query longer than the index dimension is cut to it
MatVecRaises_Short(vecs, qv) == Len(qv) < IndexDim

\* vecs @ q raises ValueError when the dimensions differ.
MatVecRaises(vecs, qv) == Len(qv) # IndexDim

\* only the first component enters the product
MatVec_FirstOnly(vecs, qv) == [j \in 1..Len(vecs) |-> vecs[j][1] * qv[1]]

MatVec(vecs, qv) == [j \in 1..Len(vecs) |-> Dot(vecs[j], qv)]

\* the sign forgotten: the smallest scores are selected
Neg_NoSign(sims) == sims

Neg(sims) == [j \in 1..Len(sims) |-> 0 - sims[j]]

\* np.argpartition(a, kth): kth < 0 counts from the end; a kth out of bounds
\* raises ValueError, except on an empty array, which is returned as it is.
NormKth(n, kth) == IF kth < 0 THEN kth + n ELSE kth

ArgPartitionRaises(n, kths) ==
    n # 0 /\ \E kth \in kths : NormKth(n, kth) < 0 \/ NormKth(n, kth) >= n

\* The permutations introselect may return: the element at each kth is in its
\* sorted position, nothing before it is larger and nothing after it smaller.
\* The order inside the two sides is not specified.
ArgPartition(a, kths) ==
    { p \in Perms(Len(a)) :
        \A kth \in kths :
            LET pos == NormKth(Len(a), kth) + 1
            IN  pos \in 1..Len(a) =>
                  /\ \A j \in 1..(pos - 1) : a[p[j]] <= a[p[pos]]
                  /\ \A j \in (pos + 1)..Len(a) : a[p[pos]] <= a[p[j]] }

\* np.argsort(a) with the default kind (quicksort, not stable): any
\* permutation that sorts a ascending; equal values come in any order.
ArgSort(a) ==
    { p \in Perms(Len(a)) : \A j \in 1..(Len(a) - 1) : a[p[j]] <= a[p[j + 1]] }

\* a[idx] (fancy indexing)
Gather(a, idx) == [j \in 1..Len(idx) |-> a[idx[j]]]

\* no selection: the first rows of the index, in index order
TopIdx_FirstRows(sims, kths, cut) == { [j \in 1..Min(cut, Len(sims)) |-> j] }

\* idx = np.argpartition(-sims, kths)[:cut]; idx = idx[np.argsort(-sims[idx])]
TopIdx(sims, kths, cut) ==
    UNION { { Gather(Take(part, cut), s) :
                s \in ArgSort(Gather(Neg(sims), Take(part, cut))) } :
            part \in ArgPartition(Neg(sims), kths) }

\* TopIdx is evaluated once for each score array the drawn search inputs can
\* give (TopIdxTable) and looked up from then on; any other array is computed.
TabScores == { Dot(u, v) : u \in Vectors, v \in Vectors }

TabArgs ==
    UNION { UNION { { << s, {k - 1}, k >>, << s, 0..(k - 1), k >> } : k \in 1..Len(s) } :
            s \in SeqsUpTo(TabScores, MaxRows) }

TopIdxTable == [a \in TabArgs |-> TopIdx(a[1], a[2], a[3])] @@ << >>

TopIdxOf(sims, kths, cut) ==
    LET a == << sims, kths, Min(cut, Len(sims)) >>
    IN  IF a \in TabArgs THEN TopIdxTable[a] ELSE TopIdx(sims, kths, cut)

\* ------------------------------------------------------------------ results
NoResult == [impl |-> "none", status |-> "none", rows |-> << >>]
Raised(impl) == [impl |-> impl, status |-> "error", rows |-> << >>]
Returned(impl, rows) == [impl |-> impl, status |-> "ok", rows |-> rows]

\* the metadata taken by rank instead of by row
Rows_MetaByRank(sims, meta, idx) ==
    [j \in 1..Len(idx) |->
        [rank |-> j, score |-> sims[idx[j]], idx |-> idx[j], meta |-> meta[j]]]

\* results.append({"rank": rank, "score": float(sims[i]), **meta.iloc[i]})
Rows(sims, meta, idx) ==
    [j \in 1..Len(idx) |->
        [rank |-> j, score |-> sims[idx[j]], idx |-> idx[j], meta |-> meta[idx[j]]]]

\* meta.iloc[int(i)] raises IndexError for a position past the last row.
IlocRaises(meta, idx) == \E j \in 1..Len(idx) : idx[j] > Len(meta)

\* ------------------------------------------------------------ normalisation
RECURSIVE SqrtIter(_, _)
SqrtIter(n, x) ==
    LET y == (x + n \div x) \div 2 IN IF y >= x THEN x ELSE SqrtIter(n, y)

ISqrt(n) == IF n = 0 THEN 0 ELSE SqrtIter(n, n)

\* the integer nearest to sqrt(n)
RoundSqrt(n) == LET r == ISqrt(n) IN IF n - r * r > r THEN r + 1 ELSE r

\* a / b rounded to the nearest integer (a >= 0, b > 0)
RDiv(a, b) == (2 * a + b) \div (2 * b)

\* np.linalg.norm(row), in units of 1/Scale
Norm(row) == RoundSqrt(Dot(row, row))

\* feats / (np.linalg.norm(feats, axis=1, keepdims=True) + 1e-10): a zero row
\* stays zero, every other row is scaled to norm 1.
NormalizeEps(arr) ==
    [j \in 1..Len(arr) |->
        IF Norm(arr[j]) = 0 THEN arr[j]
        ELSE [c \in 1..Len(arr[j]) |-> RDiv(arr[j][c] * Scale, Norm(arr[j]))]]

\* ------------------------------------------------------------------- search
\* a zero-row index treated like a missing one
LoadIndexRaises_Empty(vf, mf) ==
    \/ ~vf.exists \/ ~mf.exists
    \/ Len(mf.rows) # Len(vf.rows)
    \/ Len(vf.rows) = 0

\* visual_scan._load_index
LoadIndexRaises(vf, mf) ==
    \/ ~vf.exists \/ ~mf.exists
    \/ Len(mf.rows) # Len(vf.rows)

\* topk not clamped to the number of rows
VisualClampTopk_None(k, n) == k

\* visual_scan.match_image: if topk > len(sims): topk = len(sims)
VisualClampTopk(k, n) == IF k > n THEN n ELSE k

\* visual_scan.match_image: the set of outcomes of one call
VisualScanMatchImage(vf, mf, qv, k) ==
    IF LoadIndexRaises(vf, mf) \/ EmbedImageRaises(qv) \/ MatVecRaises(vf.rows, qv)
    THEN { Raised("visual_scan") }
    ELSE LET sims == MatVec(vf.rows, qv)
             k1 == VisualClampTopk(k, Len(sims))
         IN  IF ArgPartitionRaises(Len(sims), {k1 - 1})
             THEN { Raised("visual_scan") }
             ELSE { IF IlocRaises(mf.rows, idx) THEN Raised("visual_scan")
                    ELSE Returned("visual_scan", Rows(sims, mf.rows, idx)) :
                        idx \in TopIdxOf(sims, {k1 - 1}, k1) }

\* only the vector file is looked for
InstantMissing_VecOnly(vf, mf) == ~vf.exists

\* instant_price_match.match_image: the files must exist
InstantMissing(vf, mf) == ~vf.exists \/ ~mf.exists

\* instant_price_match.match_image: if sims.size == 0: return []
InstantEmpty(sims) == Len(sims) = 0

\* instant_price_match.match_image: the set of outcomes of one call
InstantMatchImage(vf, mf, qv, k) ==
    IF InstantMissing(vf, mf) \/ EmbedImageRaises(qv) \/ MatVecRaises(vf.rows, qv)
    THEN { Raised("instant") }
    ELSE LET sims == MatVec(vf.rows, qv)
             k1 == Min(k, Len(sims))
         IN  IF InstantEmpty(sims) THEN { Returned("instant", << >>) }
             ELSE IF ArgPartitionRaises(Len(sims), {k1 - 1})
             THEN { Raised("instant") }
             ELSE { IF IlocRaises(mf.rows, idx) THEN Raised("instant")
                    ELSE Returned("instant", Rows(sims, mf.rows, idx)) :
                        idx \in TopIdxOf(sims, {k1 - 1}, k1) }

\* feats_path = NORM_FEATS if NORM_FEATS.exists() else FEATS_NPY
FeatsPath(nf, ff) == IF nf.exists THEN nf ELSE ff

\* (sims[idx], idx) as rows without metadata
ScoreRows(sims, idx) ==
    [j \in 1..Len(idx) |->
        [rank |-> j, score |-> sims[idx[j]], idx |-> idx[j], meta |-> 0]]

\* tools/search_faiss.search_numpy:
\*   idx = np.argpartition(-sims, range(min(topk, n)))[:topk]
SearchNumpyFaiss(nf, ff, qv, k) ==
    LET f == FeatsPath(nf, ff) IN
    IF ~f.exists \/ MatVecRaises(f.rows, qv)
    THEN { Raised("search_faiss") }
    ELSE LET sims == MatVec(NormalizeEps(f.rows), qv)
             kths == 0..(Min(k, Len(sims)) - 1)
         IN  IF ArgPartitionRaises(Len(sims), kths)
             THEN { Raised("search_faiss") }
             ELSE { Returned("search_faiss", ScoreRows(sims, idx)) :
                        idx \in TopIdxOf(sims, kths, k) }

\* tools/visual_to_proof.search_numpy:
\*   k = min(topk, n); idx = np.argpartition(-sims, range(k))[:k]
SearchNumpyProof(nf, ff, qv, k) ==
    LET f == FeatsPath(nf, ff) IN
    IF ~f.exists \/ MatVecRaises(f.rows, qv)
    THEN { Raised("visual_to_proof") }
    ELSE LET sims == MatVec(NormalizeEps(f.rows), qv)
             k1 == Min(k, Len(sims))
         IN  IF ArgPartitionRaises(Len(sims), 0..(k1 - 1))
             THEN { Raised("visual_to_proof") }
             ELSE { Returned("visual_to_proof", ScoreRows(sims, idx)) :
                        idx \in TopIdxOf(sims, 0..(k1 - 1), k1) }

\* no builder has run
NoWriter == [f \in FileNames |-> "none"]

\* no snapshot of the metadata file has been taken
NoSnapshot == [taken |-> FALSE, file |-> Missing]

\* ------------------------------------------------ dev_live_scan_cv: captures
\* what decode_upc_from_rgb returns for a frame: a barcode, or None
None == "None"
Upcs == { "1", "2" }

\* what read_frame_rgb gives: no frame, or a frame (named by what it shows)
NoFrame == "no frame"
Frames == Upcs \cup { None, NoFrame }

\* _key_for(upc, v) for a barcode
KeyFor(upc) == IF upc = "1" THEN "UPC:1" ELSE "UPC:2"

\* the keys _key_for gives: the barcodes', and one built from the vision fields
Keys == { KeyFor(upc) : upc \in Upcs } \cup { "VIS:brand|name||" }

\* time.time() when the scanner starts (any value past the first cooldown)
StartTime == COOLDOWN_SEC

\* a thread between two captures: its locals of the last iteration are dead
MainScanning == [pc |-> "scan", now_ts |-> 0, key |-> None]
WorkerScanning == [pc |-> "scan", key |-> None, now_ts |-> 0, last_ts |-> 0]

\* the module globals of a live scanner when it starts
GlobalsAtStart ==
    [ latest_upc |-> None, last_upc |-> "", upc_hit_count |-> 0,
      price_lookup_inflight |-> FALSE,
      history_by_key |-> {}, history_order |-> << >>,
      locked_keys |-> {}, last_vision_key |-> "", vision_hit_count |-> 0,
      last_frame_rgb |-> None, lock_obj |-> "free", FRAME_HUB |-> None ]

\* no price-lookup thread has been started
NoLookups == [collect |-> 0, acq |-> 0, logs |-> 0]
NothingSeen == [upc_streak |-> 0, looked_up |-> {}]

\* the scanner is not running
ScanIdle ==
    /\ clock = StartTime
    /\ last_commit_ts = [k \in Keys |-> 0]
    /\ commits = << >>
    /\ mainloop = MainScanning
    /\ worker = WorkerScanning
    /\ glob = GlobalsAtStart
    /\ lookups = NoLookups
    /\ seen = NothingSeen

\* ui_app: _init_state()
UiIdle ==
    /\ ss_running = FALSE
    /\ ss_last_upc = None
    /\ ss_last_seen_ts = 0
    /\ ss_scans = << >>
    /\ price_matches = << >>

\* no scanner is running
LiveIdle == ScanIdle /\ UiIdle

\* proof_watcher has not embedded anything yet
NoNpz == [exists |-> FALSE, rows |-> << >>, ids |-> << >>]
NoWatcherIndex == embeddings_npz = NoNpz /\ catalog_csv = Missing

\* build_faiss_index has not run yet
NoFaissMeta == [exists |-> FALSE, num_items |-> 0]
NoFaiss == faiss_index = Missing /\ faiss_meta = NoFaissMeta

\* all that is outside the visual index is as it is at the start
Untouched == LiveIdle /\ NoWatcherIndex /\ NoFaiss

NoRun ==
    /\ prev = NoSnapshot
    /\ Untouched
    /\ builder = "none" /\ pc = "idle" /\ items = << >> /\ i = 0
    /\ batch = << >> /\ feats = << >> /\ metas = << >>
    /\ writer = NoWriter

\* ------------------------------------------------------------ search actions
\* A search is one synchronous call: it is made when no earlier outcome is
\* pending, and its caller consumes the outcome before calling again.
CallVisualScan ==
    /\ result = NoResult
    /\ result' \in VisualScanMatchImage(clip_vectors, clip_meta, q, topk)
    /\ UNCHANGED << files, query, locals, writer, prev, scan, more >>

\* the call cuts the metadata table to the number of vectors before searching
CallInstant_Repairing ==
    /\ result = NoResult
    /\ result' \in InstantMatchImage(clip_vectors, clip_meta, q, topk)
    /\ clip_meta' = IF clip_meta.exists
                     THEN File(Take(clip_meta.rows, Len(clip_vectors.rows)))
                     ELSE clip_meta
    /\ UNCHANGED << clip_vectors, clip_feats, clip_feats_norm, idx_vectors, idx_meta,
                    query, locals, writer, prev, scan, more >>

CallInstant ==
    /\ result = NoResult
    /\ result' \in InstantMatchImage(clip_vectors, clip_meta, q, topk)
    /\ UNCHANGED << files, query, locals, writer, prev, scan, more >>

CallSearchNumpyFaiss ==
    /\ result = NoResult
    /\ result' \in SearchNumpyFaiss(clip_feats_norm, clip_feats, q, topk)
    /\ UNCHANGED << files, query, locals, writer, prev, scan, more >>

CallSearchNumpyProof ==
    /\ result = NoResult
    /\ result' \in SearchNumpyProof(clip_feats_norm, clip_feats, q, topk)
    /\ UNCHANGED << files, query, locals, writer, prev, scan, more >>

\* the caller prints the outcome of the call and drops it
Return ==
    /\ result # NoResult
    /\ result' = NoResult
    /\ UNCHANGED << files, query, locals, writer, prev, scan, more >>

\* The index on disk when a search is made: any vector file and any metadata
\* file of up to MaxRows rows (the row counts may differ: the two files are
\* written one after the other), the feature files holding the same corpus.
VecFiles == { Missing } \cup { File(v) : v \in SeqsUpTo(Vectors, MaxRows) }
MetaFiles == { Missing } \cup { File([j \in 1..m |-> j]) : m \in 0..MaxRows }

InitSearch ==
    /\ clip_vectors \in VecFiles
    /\ clip_meta \in MetaFiles
    /\ clip_feats = clip_vectors
    /\ clip_feats_norm \in
          { Missing,
            IF clip_feats.exists THEN File(NormalizeEps(clip_feats.rows)) ELSE Missing }
    /\ idx_vectors = Missing /\ idx_meta = Missing
    /\ q \in Queries
    /\ topk \in 1..MaxK
    /\ result = NoResult
    /\ NoRun

NextSearch ==
    \/ CallVisualScan
    \/ CallInstant
    \/ CallSearchNumpyFaiss
    \/ CallSearchNumpyProof
    \/ Return

SpecSearch == InitSearch /\ [][NextSearch]_vars

\* A search of a well-formed index: both files, as many metadata rows as
\* vectors, a query of the index dimension.
InitPermute ==
    /\ clip_vectors \in VecFiles \ { Missing }
    /\ clip_meta = File([j \in 1..Len(clip_vectors.rows) |-> j])
    /\ clip_feats = Missing /\ clip_feats_norm = Missing
    /\ idx_vectors = Missing /\ idx_meta = Missing
    /\ q \in Vectors
    /\ topk \in 1..MaxK
    /\ result = NoResult
    /\ NoRun

NextPermute == CallVisualScan \/ CallInstant \/ Return

SpecPermute == InitPermute /\ [][NextPermute]_vars

\* ================================================================= builders
\* model.encode_image(x): the raw embedding of the image with this code
EmbedTable == << <<2000, 0>>, <<0, 2000>>, <<1414, 1414>>, <<1200, 1600>>, <<1600, 1200>> >>
RawEmbed(code) == EmbedTable[((code - 1) % Len(EmbedTable)) + 1]

\* the float NaN, a value no scaled component can take
NaN == 0 - Scale * Scale * Scale

\* f / f.norm(dim=-1, keepdim=True): no guard, a zero row gives 0/0 = NaN
NormalizeTorch(arr) ==
    [j \in 1..Len(arr) |->
        [c \in 1..Len(arr[j]) |->
            IF Norm(arr[j]) = 0 THEN NaN
            ELSE RDiv(arr[j][c] * Scale, Norm(arr[j]))]]

\* the batch comes out of the encoder in reverse order
EncodeBatch_Reversed(codes) ==
    NormalizeTorch([j \in 1..Len(codes) |-> RawEmbed(codes[Len(codes) + 1 - j])])

\* the embedding of a batch of decoded images
EncodeBatch(codes) == NormalizeTorch([j \in 1..Len(codes) |-> RawEmbed(codes[j])])

\* build_index.normalize_rows: n[n==0] = 1.0; X / n
NormalizeRows(arr) ==
    [j \in 1..Len(arr) |->
        IF Norm(arr[j]) = 0 THEN arr[j]
        ELSE [c \in 1..Len(arr[j]) |-> RDiv(arr[j][c] * Scale, Norm(arr[j]))]]

\* np.concatenate(list_of_arrays, axis=0)
RECURSIVE Concatenate(_)
Concatenate(arrs) ==
    IF Len(arrs) = 0 THEN << >> ELSE Head(arrs) \o Concatenate(Tail(arrs))

\* the lists of images a run may find: image j has code j, readable or not
ItemLists ==
    UNION { { [j \in 1..n |-> [code |-> j, readable |-> r[j]]] : r \in [1..n -> BOOLEAN] } :
            n \in 0..MaxItems }

EmbedBuilders == { "instant", "bvi", "tools" }
Running == pc \in { "loop", "tail", "encode", "save1", "save2" }

\* a builder script is started
StartRun(b, its) ==
    /\ pc = "idle"
    /\ builder' = b
    /\ items' = its
    /\ i' = 0 /\ batch' = << >> /\ feats' = << >> /\ metas' = << >>
    /\ result' = NoResult

Wrote(f) == writer' = [writer EXCEPT ![f] = "run"]

\* ------------------------------------------- instant_price_match.run_embed
\* the decode error is not caught
IpmOnUnreadable_Raise == "raise"

\* except Exception: continue
IpmOnUnreadable == "continue"

\* if not items: print("[embed] no local images found."); return
IpmStart ==
    \E its \in ItemLists :
        /\ StartRun("instant", its)
        /\ pc' = IF Len(its) = 0 THEN "empty" ELSE "loop"
        /\ UNCHANGED << files, query, writer, prev, scan, more >>

\* if len(batch) == B or i == len(items): flush the batch
IpmFlushDue(b, n, len) == Len(b) = BatchSize \/ n = len

\* one iteration of: for i, (code, name, p) in enumerate(items, 1)
IpmStep ==
    /\ builder = "instant" /\ pc = "loop"
    /\ i' = i + 1
    /\ IF ~items[i'].readable
       THEN /\ UNCHANGED << batch, feats, metas >>
            /\ pc' = IF IpmOnUnreadable = "continue"
                      THEN (IF i' = Len(items) THEN "save1" ELSE "loop")
                      ELSE "failed"
       ELSE LET b1 == Append(batch, items[i'].code) IN
            /\ IF IpmFlushDue(b1, i', Len(items))
               THEN /\ feats' = Append(feats, EncodeBatch(b1))
                    /\ metas' = metas \o b1
                    /\ batch' = << >>
               ELSE /\ batch' = b1
                    /\ UNCHANGED << feats, metas >>
            /\ pc' = IF i' = Len(items) THEN "save1" ELSE "loop"
    /\ result' = NoResult
    /\ UNCHANGED << files, query, builder, items, writer, prev, scan, more >>

\* V = np.concatenate(feats) if feats else np.zeros((0,512)); np.save(clip_vectors.npy, V)
IpmSaveVectors ==
    /\ builder = "instant" /\ pc = "save1"
    /\ clip_vectors' = File(Concatenate(feats))
    /\ Wrote("clip_vectors")
    /\ pc' = "save2"
    /\ result' = NoResult
    /\ UNCHANGED << clip_meta, clip_feats, clip_feats_norm, idx_vectors, idx_meta,
                    query, builder, items, i, batch, feats, metas, prev, scan, more >>

\* meta_df.to_parquet(clip_meta.parquet)
IpmSaveMeta ==
    /\ builder = "instant" /\ pc = "save2"
    /\ clip_meta' = File(metas)
    /\ Wrote("clip_meta")
    /\ pc' = "saved"
    /\ result' = NoResult
    /\ UNCHANGED << clip_vectors, clip_feats, clip_feats_norm, idx_vectors, idx_meta,
                    query, builder, items, i, batch, feats, metas, prev, scan, more >>

\* --------------------------------------------- build_visual_index.run_embed
\* except Exception: continue
BviOnUnreadable == "continue"

\* if not items: print("[emb] nothing to embed ..."); return
BviStart ==
    \E its \in ItemLists :
        /\ StartRun("bvi", its)
        /\ pc' = IF Len(its) = 0 THEN "empty" ELSE "loop"
        /\ UNCHANGED << files, query, writer, prev, scan, more >>

\* one iteration of: for code, name, path in items
BviStep ==
    /\ builder = "bvi" /\ pc = "loop"
    /\ i' = i + 1
    /\ IF ~items[i'].readable
       THEN /\ UNCHANGED << batch, feats, metas >>
            /\ pc' = IF BviOnUnreadable = "continue"
                      THEN (IF i' = Len(items) THEN "tail" ELSE "loop")
                      ELSE "failed"
       ELSE LET b1 == Append(batch, items[i'].code) IN
            /\ IF Len(b1) >= BatchSize
               THEN /\ feats' = Append(feats, EncodeBatch(b1))
                    /\ metas' = metas \o b1
                    /\ batch' = << >>
               ELSE /\ batch' = b1
                    /\ UNCHANGED << feats, metas >>
            /\ pc' = IF i' = Len(items) THEN "tail" ELSE "loop"
    /\ result' = NoResult
    /\ UNCHANGED << files, query, builder, items, writer, prev, scan, more >>

\* the tail flush, then: if not feats_all: print("[emb] nothing embedded."); return
BviTail ==
    /\ builder = "bvi" /\ pc = "tail"
    /\ IF Len(batch) > 0
       THEN /\ feats' = Append(feats, EncodeBatch(batch))
            /\ metas' = metas \o batch
            /\ batch' = << >>
       ELSE UNCHANGED << batch, feats, metas >>
    /\ pc' = IF Len(feats') = 0 THEN "empty" ELSE "save1"
    /\ result' = NoResult
    /\ UNCHANGED << files, query, builder, items, i, writer, prev, scan, more >>

\* pd.DataFrame(meta_rows).to_parquet(META_PARQUET)
BviSaveMeta ==
    /\ builder = "bvi" /\ pc = "save1"
    /\ clip_meta' = File(metas)
    /\ Wrote("clip_meta")
    /\ pc' = "save2"
    /\ result' = NoResult
    /\ UNCHANGED << clip_vectors, clip_feats, clip_feats_norm, idx_vectors, idx_meta,
                    query, builder, items, i, batch, feats, metas, prev, scan, more >>

\* np.save(FEATS_NPY, feats)
BviSaveFeats ==
    /\ builder = "bvi" /\ pc = "save2"
    /\ clip_feats' = File(Concatenate(feats))
    /\ Wrote("clip_feats")
    /\ pc' = "saved"
    /\ result' = NoResult
    /\ UNCHANGED << clip_vectors, clip_meta, clip_feats_norm, idx_vectors, idx_meta,
                    query, builder, items, i, batch, feats, metas, prev, scan, more >>

\* --------------------------------------------------- tools/build_index.main
\* embed_batch: except Exception: pass
ToolsOnUnreadable == "pass"

\* embed_batch: the codes of the images of the slice that decode
RECURSIVE Decoded(_)
Decoded(slice) ==
    IF Len(slice) = 0 THEN << >>
    ELSE (IF Head(slice).readable THEN << Head(slice).code >> ELSE << >>)
         \o Decoded(Tail(slice))

\* if not imgs: print("[error] no images under ./images"); return
ToolsStart ==
    \E its \in ItemLists :
        /\ StartRun("tools", its)
        /\ pc' = IF Len(its) = 0 THEN "empty" ELSE "loop"
        /\ UNCHANGED << files, query, writer, prev, scan, more >>

\* one iteration of: for i in range(0, len(imgs), BATCH), and after the last
\* one: if not all_meta: print("[error] nothing embedded."); return
ToolsBatch ==
    /\ builder = "tools" /\ pc = "loop"
    /\ LET slice == SubSeq(items, i + 1, Min(i + BatchSize, Len(items)))
           aborts == ToolsOnUnreadable # "pass" /\ \E j \in 1..Len(slice) : ~slice[j].readable
           got == Decoded(slice)
       IN  /\ i' = Min(i + BatchSize, Len(items))
           /\ IF Len(got) = 0 \/ aborts
              THEN UNCHANGED << feats, metas >>
              ELSE /\ feats' = Append(feats, EncodeBatch(got))
                   /\ metas' = metas \o got
           /\ pc' = IF aborts THEN "failed"
                     ELSE IF i' < Len(items) THEN "loop"
                     ELSE IF Len(metas') = 0 THEN "empty" ELSE "save1"
    /\ result' = NoResult
    /\ UNCHANGED << files, query, builder, items, batch, writer, prev, scan, more >>

\* np.save(EMB_DIR / "clip_vectors.npy", vecs)
ToolsSaveVectors ==
    /\ builder = "tools" /\ pc = "save1"
    /\ clip_vectors' = File(Concatenate(feats))
    /\ Wrote("clip_vectors")
    /\ pc' = "save2"
    /\ result' = NoResult
    /\ UNCHANGED << clip_meta, clip_feats, clip_feats_norm, idx_vectors, idx_meta,
                    query, builder, items, i, batch, feats, metas, prev, scan, more >>

\* the rows appended to the table already on disk
ToolsSaveMeta_Append ==
    /\ builder = "tools" /\ pc = "save2"
    /\ clip_meta' = File(clip_meta.rows \o metas)
    /\ Wrote("clip_meta")
    /\ pc' = "saved"
    /\ result' = NoResult
    /\ UNCHANGED << clip_vectors, clip_feats, clip_feats_norm, idx_vectors, idx_meta,
                    query, builder, items, i, batch, feats, metas, prev, scan, more >>

\* meta.to_parquet(EMB_DIR / "clip_meta.parquet")
ToolsSaveMeta ==
    /\ builder = "tools" /\ pc = "save2"
    /\ clip_meta' = File(metas)
    /\ Wrote("clip_meta")
    /\ pc' = "saved"
    /\ result' = NoResult
    /\ UNCHANGED << clip_vectors, clip_feats, clip_feats_norm, idx_vectors, idx_meta,
                    query, builder, items, i, batch, feats, metas, prev, scan, more >>

\* ------------------------------------------- tools/proof_watcher.embed_images
\* the builders that embed images and write an index
IndexBuilders == EmbedBuilders \cup { "watcher" }

WatcherRest == << files, query, writer, prev, scan, ui, faissfiles >>

\* rows = read_rows(limit); embed_images(rows): nothing is collected yet
WpStart ==
    \E its \in ItemLists :
        /\ StartRun("watcher", its)
        /\ pc' = IF Len(its) = 0 THEN "empty" ELSE "loop"
        /\ UNCHANGED << watcher, WatcherRest >>

\* one iteration of: for row in rows. A row without barcode, without image
\* file or whose image does not decode is skipped (continue); otherwise the
\* image, its id and its catalog row are appended together. After the last
\* row: if not images: sys.exit(1)
WpCollect ==
    /\ builder = "watcher" /\ pc = "loop"
    /\ i' = i + 1
    /\ IF items[i'].readable
       THEN /\ batch' = Append(batch, items[i'].code)
            /\ metas' = Append(metas, items[i'].code)
       ELSE UNCHANGED << batch, metas >>
    /\ pc' = IF i' < Len(items) THEN "loop"
              ELSE IF Len(batch') = 0 THEN "empty" ELSE "encode"
    /\ result' = NoResult
    /\ UNCHANGED << builder, items, feats, watcher, WatcherRest >>

\* one iteration of: for i in range(0, len(images), batch):
\* all_emb.append(normalised encode_image(images[i:i+batch]))
WpEncode ==
    /\ builder = "watcher" /\ pc = "encode"
    /\ feats' = Append(feats, EncodeBatch(Take(batch, BatchSize)))
    /\ batch' = SubSeq(batch, Min(BatchSize, Len(batch)) + 1, Len(batch))
    /\ pc' = IF Len(batch') = 0 THEN "save1" ELSE "encode"
    /\ result' = NoResult
    /\ UNCHANGED << builder, items, i, metas, watcher, WatcherRest >>

\* np.savez_compressed(EMB_PATH, embeddings=embs, ids=np.array(ids))
WpSaveNpz ==
    /\ builder = "watcher" /\ pc = "save1"
    /\ embeddings_npz' = [exists |-> TRUE, rows |-> Concatenate(feats), ids |-> metas]
    /\ pc' = "save2"
    /\ result' = NoResult
    /\ UNCHANGED << catalog_csv, builder, items, i, batch, feats, metas, WatcherRest >>

\* the catalog rows are written to CATALOG_CSV
WpSaveCatalog ==
    /\ builder = "watcher" /\ pc = "save2"
    /\ catalog_csv' = File(metas)
    /\ pc' = "saved"
    /\ result' = NoResult
    /\ UNCHANGED << embeddings_npz, builder, items, i, batch, feats, metas, WatcherRest >>

\* ----------------------------------------------------- build_index.py main
\* load_embeddings raises FileNotFoundError for a missing file; differing row
\* counts only print a warning.
LoadEmbeddingsRaises(vf, mf) == ~vf.exists \/ ~mf.exists

\* vecs, meta = load_embeddings(emb_dir); if n == 0: sys.exit(1)
SkStart ==
    /\ StartRun("sklearn", << >>)
    /\ pc' = IF LoadEmbeddingsRaises(clip_vectors, clip_meta) THEN "failed"
              ELSE IF Len(clip_vectors.rows) = 0 THEN "empty"
              ELSE "save1"
    /\ UNCHANGED << files, query, writer, prev, scan, more >>

\* vecs_norm = normalize_rows(vecs); np.save(out/"vectors_norm.npy", vecs_norm)
SkSaveVectors ==
    /\ builder = "sklearn" /\ pc = "save1"
    /\ feats' = << clip_vectors.rows >>
    /\ metas' = clip_meta.rows
    /\ idx_vectors' = File(NormalizeRows(clip_vectors.rows))
    /\ Wrote("idx_vectors")
    /\ pc' = "save2"
    /\ result' = NoResult
    /\ UNCHANGED << clip_vectors, clip_meta, clip_feats, clip_feats_norm, idx_meta,
                    query, builder, items, i, batch, prev, scan, more >>

\* meta.to_parquet(out/"clip_meta.parquet")
SkSaveMeta ==
    /\ builder = "sklearn" /\ pc = "save2"
    /\ idx_meta' = File(metas)
    /\ Wrote("idx_meta")
    /\ pc' = "saved"
    /\ result' = NoResult
    /\ UNCHANGED << clip_vectors, clip_meta, clip_feats, clip_feats_norm, idx_vectors,
                    query, builder, items, i, batch, feats, metas, prev, scan, more >>

\* the builder process is stopped (killed, power loss) before it finishes
Stop ==
    /\ Running
    /\ pc' = "killed"
    /\ result' = NoResult
    /\ UNCHANGED << files, query, builder, items, i, batch, feats, metas, writer, prev, scan, more >>

\* When a builder starts, the embeddings directory is empty or holds the index
\* that an earlier complete run of tools/build_index.py wrote (EarlierIsToolsOutput).
InitBuild ==
    /\ \E its \in ItemLists :
          IF Len(Decoded(its)) = 0
          THEN /\ clip_vectors = Missing /\ clip_meta = Missing
               /\ writer = NoWriter
          ELSE /\ clip_vectors = File(EncodeBatch(Decoded(its)))
               /\ clip_meta = File(Decoded(its))
               /\ writer = [f \in FileNames |->
                              IF f \in { "clip_vectors", "clip_meta" }
                              THEN "earlier" ELSE "none"]
    /\ clip_feats = Missing /\ clip_feats_norm = Missing
    /\ idx_vectors = Missing /\ idx_meta = Missing
    /\ q = <<1000, 0>>
    /\ topk = 2
    /\ result = NoResult
    /\ builder = "none" /\ pc = "idle" /\ items = << >> /\ i = 0
    /\ batch = << >> /\ feats = << >> /\ metas = << >>
    /\ prev = NoSnapshot
    /\ Untouched

NextBuild ==
    \/ IpmStart \/ IpmStep \/ IpmSaveVectors \/ IpmSaveMeta
    \/ BviStart \/ BviStep \/ BviTail \/ BviSaveMeta \/ BviSaveFeats
    \/ ToolsStart \/ ToolsBatch \/ ToolsSaveVectors \/ ToolsSaveMeta
    \/ WpStart \/ WpCollect \/ WpEncode \/ WpSaveNpz \/ WpSaveCatalog
    \/ Stop
    \/ CallVisualScan
    \/ CallInstant
    \/ Return

SpecBuild == InitBuild /\ [][NextBuild]_vars

\* what a complete run of tools/build_index.py leaves on disk
EarlierIsToolsOutput ==
    (builder = "tools" /\ pc = "saved") =>
        /\ clip_vectors = File(EncodeBatch(Decoded(items)))
        /\ clip_meta = File(Decoded(items))

\* ------------------------------------------------ a builder run a second time
\* find_images() lists the files in the order rglob yields them, which may
\* differ from run to run; _iter_existing follows the rows of the catalog.
Reorderings(its) ==
    { [j \in 1..Len(its) |-> its[p[j]]] :
        p \in { f \in [1..Len(its) -> 1..Len(its)] :
                  \A a, b \in 1..Len(its) : a # b => f[a] # f[b] } }

RerunLists == IF builder = "tools" THEN Reorderings(items) ELSE { items }

\* the same builder is run once more over the same, unchanged images
Rerun ==
    /\ builder \in { "bvi", "tools" }
    /\ pc \in { "saved", "empty" }
    /\ ~prev.taken
    /\ prev' = [taken |-> TRUE, file |-> clip_meta]
    /\ items' \in RerunLists
    /\ i' = 0 /\ batch' = << >> /\ feats' = << >> /\ metas' = << >>
    /\ pc' = IF Len(items) = 0 THEN "empty" ELSE "loop"
    /\ result' = NoResult
    /\ UNCHANGED << files, query, builder, writer, scan, more >>

InitRebuild ==
    /\ clip_vectors = Missing /\ clip_meta = Missing
    /\ clip_feats = Missing /\ clip_feats_norm = Missing
    /\ idx_vectors = Missing /\ idx_meta = Missing
    /\ q = <<1000, 0>>
    /\ topk = 2
    /\ result = NoResult
    /\ NoRun

NextRebuild ==
    \/ BviStart \/ BviStep \/ BviTail \/ BviSaveMeta \/ BviSaveFeats
    \/ ToolsStart \/ ToolsBatch \/ ToolsSaveVectors \/ ToolsSaveMeta
    \/ Rerun

SpecRebuild == InitRebuild /\ [][NextRebuild]_vars

\* ------------------------------------------------- the normalisation steps
\* build_faiss_index.l2_normalize: x /= np.linalg.norm(x, axis=1) + 1e-10
L2Normalize(arr) == NormalizeEps(arr)

\* raw outputs of model.encode_image, the zero vector among them
RawVectors == { <<0, 0>>, <<2000, 0>>, <<1200, 1600>> }
RawFiles == { File(a) : a \in SeqsUpTo(RawVectors, MaxRows) }

\* build_visual_index.run_embed with every image readable: one batch goes
\* through _flush_batch, whatever encode_image returned for it
FlushBatch ==
    \E raw \in SeqsUpTo(RawVectors, BatchSize) :
        /\ Len(raw) >= 1
        /\ pc = "idle"
        /\ builder' = "bvi"
        /\ items' = [j \in 1..Len(raw) |-> [code |-> j, readable |-> TRUE]]
        /\ i' = Len(raw)
        /\ feats' = << NormalizeTorch(raw) >>
        /\ metas' = [j \in 1..Len(raw) |-> j]
        /\ batch' = << >>
        /\ pc' = "save1"
        /\ result' = NoResult
        /\ UNCHANGED << files, query, writer, prev, scan, more >>

\* build_faiss: faiss.normalize_L2(feats); index.add(feats); faiss.write_index
BuildFaiss(arr) == File(NormalizeEps(arr))

\* build_faiss_index.main: feats = l2_normalize(np.load(feats_path)) is always
\* saved to NORM_FEATS; the index is built when faiss imports and there is no
\* index yet or --force is given; faiss.meta.json is always written
FaissBuild ==
    /\ StartRun("faiss", << >>)
    /\ IF clip_feats.exists
       THEN \E force, available \in BOOLEAN :
            LET normed == L2Normalize(clip_feats.rows) IN
            /\ clip_feats_norm' = File(normed)
            /\ faiss_index' = IF available /\ (~ faiss_index.exists \/ force)
                               THEN BuildFaiss(normed) ELSE faiss_index
            /\ faiss_meta' = [exists |-> TRUE, num_items |-> Len(normed)]
            /\ Wrote("clip_feats_norm")
            /\ pc' = "saved"
       ELSE /\ pc' = "failed"
            /\ UNCHANGED << clip_feats_norm, faissfiles, writer >>
    /\ UNCHANGED << clip_vectors, clip_meta, clip_feats, idx_vectors, idx_meta, query,
                    prev, scan, ui, watcher >>

\* any array of raw embeddings is on disk, with as many metadata rows
InitNormalize ==
    /\ clip_vectors \in RawFiles
    /\ clip_meta = File([j \in 1..Len(clip_vectors.rows) |-> j])
    /\ clip_feats \in { Missing, clip_vectors }
    /\ clip_feats_norm = Missing
    /\ idx_vectors = Missing /\ idx_meta = Missing
    /\ q = <<1000, 0>>
    /\ topk = 2
    /\ result = NoResult
    /\ NoRun

NextNormalize ==
    \/ SkStart \/ SkSaveVectors \/ SkSaveMeta
    \/ FaissBuild
    \/ FlushBatch \/ BviSaveMeta \/ BviSaveFeats

SpecNormalize == InitNormalize /\ [][NextNormalize]_vars

\* ------------------------------------- build_faiss_index / search_faiss.main
\* the clip_feats.npy files build_visual_index.run_embed can leave: one unit
\* row per embedded image, at least one row
FeatFiles == { File(a) : a \in SeqsUpTo(Vectors, MaxFeatRows) \ { << >> } }

FaissRest == << clip_vectors, idx_vectors, idx_meta, query, writer, prev, scan, ui, watcher >>

\* build_visual_index.run_embed is run over a changed catalog: it writes a new
\* clip_meta.parquet and a new clip_feats.npy
NewFeats ==
    /\ pc = "idle"
    /\ clip_feats' \in FeatFiles \ { clip_feats }
    /\ clip_meta' = File([j \in 1..Len(clip_feats'.rows) |-> j])
    /\ UNCHANGED << clip_feats_norm, faissfiles, result, locals, FaissRest >>

\* the build_faiss_index process ends
Exit ==
    /\ builder = "faiss" /\ pc \in { "saved", "failed" }
    /\ builder' = "none" /\ pc' = "idle"
    /\ UNCHANGED << clip_meta, clip_feats, clip_feats_norm, faissfiles, result,
                    items, i, batch, feats, metas, FaissRest >>

\* the label and the distance faiss gives a result slot it cannot fill (-1, -3.4e38)
NoLabel == 0
NoScore == 0 - (Scale * Scale * Scale + 1)

\* search_faiss raises: faiss does not import, there is no faiss.index, or the
\* query has not the dimension of the index
SearchFaissRaises(available, xf, qv) ==
    ~ available \/ ~ xf.exists \/ MatVecRaises(xf.rows, qv)

\* index.search(q, topk) on an IndexFlatIP: the exact inner products, best
\* first, equal scores in no specified order; with fewer than topk vectors the
\* remaining slots hold label -1
FaissLabels(xf, qv, k) ==
    LET sims == MatVec(xf.rows, qv)
        k1 == Min(k, Len(sims))
    IN  { idx \o [j \in 1..(k - k1) |-> NoLabel] : idx \in TopIdxOf(sims, 0..(k1 - 1), k1) }

\* (D[0], I[0]) as rows without metadata
FaissRows(xf, qv, idx) ==
    [j \in 1..Len(idx) |->
        [rank |-> j,
         score |-> IF idx[j] = NoLabel THEN NoScore ELSE MatVec(xf.rows, qv)[idx[j]],
         idx |-> idx[j], meta |-> 0]]

\* tools/search_faiss.search_faiss
SearchFaiss(available, xf, qv, k) ==
    IF SearchFaissRaises(available, xf, qv)
    THEN { Raised("faiss") }
    ELSE { Returned("faiss", FaissRows(xf, qv, idx)) : idx \in FaissLabels(xf, qv, k) }

\* df.iloc[int(i)]: position -1 is the last row; a position past the last row
\* (or any position in an empty table) raises IndexError
MainIlocRaises(meta, rows) ==
    \E j \in 1..Len(rows) : rows[j].idx > Len(meta) \/ Len(meta) = 0

Iloc(meta, j) == IF j = NoLabel THEN meta[Len(meta)] ELSE meta[j]

\* tools/search_faiss.main: try search_faiss, except: search_numpy; then the
\* metadata row of each returned position is printed
SearchFaissMain(available, xf, nf, ff, mf, qv, k) ==
    LET tried == SearchFaiss(available, xf, qv, k)
        found == IF Raised("faiss") \in tried THEN SearchNumpyFaiss(nf, ff, qv, k) ELSE tried
    IN  { IF r.status = "error" \/ ~ mf.exists \/ MainIlocRaises(mf.rows, r.rows)
          THEN Raised(r.impl)
          ELSE Returned(r.impl, [j \in 1..Len(r.rows) |->
                                    [r.rows[j] EXCEPT !.meta = Iloc(mf.rows, r.rows[j].idx)]]) :
          r \in found }

CallSearchFaissMain ==
    /\ result = NoResult
    /\ \E available \in BOOLEAN :
          result' \in SearchFaissMain(available, faiss_index, clip_feats_norm, clip_feats,
                                      clip_meta, q, topk)
    /\ UNCHANGED << files, faissfiles, locals, FaissRest >>

\* the features of a first catalog are on disk; no faiss artifact yet
InitFaiss ==
    /\ clip_feats \in FeatFiles
    /\ clip_meta = File([j \in 1..Len(clip_feats.rows) |-> j])
    /\ clip_vectors = Missing /\ clip_feats_norm = Missing
    /\ idx_vectors = Missing /\ idx_meta = Missing
    /\ q \in Vectors
    /\ topk \in 1..MaxK
    /\ result = NoResult
    /\ NoRun

NextFaiss == NewFeats \/ FaissBuild \/ Exit \/ CallSearchFaissMain \/ Return

SpecFaiss == InitFaiss /\ [][NextFaiss]_vars

\* --------------------------------------------- dev_live_scan_cv: the threads
Rest == << files, query, result, locals, writer, prev, more >>

\* the process lives until the main loop leaves (its threads are daemons)
Alive == mainloop.pc # "exit"

\* upc_hit_count + 1, kept at HITS_NEEDED once there (only >= HITS_NEEDED is tested)
Bump(n) == IF n < HITS_NEEDED THEN n + 1 ELSE HITS_NEEDED

\* the frames showing barcode upc in a row, this one included; lastBarcode is
\* the barcode of the frame before when that frame showed one
Streak(upc, lastBarcode) ==
    IF upc = None THEN 0
    ELSE IF seen.upc_streak > 0 /\ upc = lastBarcode THEN Bump(seen.upc_streak)
    ELSE 1

\* history_order.remove(key): the first occurrence goes
RECURSIVE Remove(_, _)
Remove(order, key) ==
    IF order = << >> THEN << >>
    ELSE IF Head(order) = key THEN Tail(order)
    ELSE << Head(order) >> \o Remove(Tail(order), key)

\* Insert without the trim
Insert_NoTrim(order, key) ==
    << key >> \o (IF key \in Range(order) THEN Remove(order, key) ELSE order)

\* if key in history_order: history_order.remove(key)
\* history_order.insert(0, key); del history_order[MAX_LIST_ITEMS:]
Insert(order, key) ==
    Take(<< key >> \o (IF key \in Range(order) THEN Remove(order, key) ELSE order),
         MAX_LIST_ITEMS)

\* _ensure_entry(key, v, capture_path) on the globals gl
Entered(gl, key) ==
    [gl EXCEPT !.history_by_key = @ \cup { key },
               !.history_order = Insert(@, key)]

\* a capture is committed: _ensure_entry(key, v, out_jpg)
EnsureEntry(key, ts) ==
    /\ commits' = Append(commits, [key |-> key, ts |-> ts])
    /\ glob' = Entered(glob, key)

\* price_lookup_inflight = True; threading.Thread(target=_price_lookup_thread, ...).start()
StartLookup(gl, key) ==
    /\ glob' = [gl EXCEPT !.price_lookup_inflight = TRUE]
    /\ lookups' = [lookups EXCEPT !.collect = @ + 1]
    /\ seen' = [seen EXCEPT !.looked_up = @ \cup { key }]

\* a second passes
Tick ==
    /\ Alive
    /\ clock < StartTime + MaxTime
    /\ clock' = clock + 1
    /\ UNCHANGED << last_commit_ts, commits, mainloop, worker, glob, lookups, seen, Rest >>

\* main: ok, rgb = read_frame_rgb(cap); the barcode pass; track hits; when
\* the barcode is locked, key = _key_for(upc, v0); now_ts = time.time()
MainFrame ==
    /\ mainloop.pc = "scan"
    /\ \E frame \in Frames :
          IF frame = NoFrame
          THEN UNCHANGED << mainloop, glob, seen >>
          ELSE LET upc == frame
                   count == IF upc # None
                            THEN (IF upc = glob.latest_upc
                                  THEN Bump(glob.upc_hit_count) ELSE 1)
                            ELSE 0
               IN /\ glob' = [glob EXCEPT !.upc_hit_count = count,
                                          !.latest_upc = IF upc # None THEN upc ELSE @]
                  /\ seen' = [seen EXCEPT !.upc_streak = Streak(upc, glob.latest_upc)]
                  /\ mainloop' = IF upc # None /\ count >= HITS_NEEDED
                                 THEN [pc |-> "check", now_ts |-> clock, key |-> KeyFor(upc)]
                                 ELSE MainScanning
    /\ UNCHANGED << clock, last_commit_ts, commits, worker, lookups, Rest >>

\* MainCheck without the cooldown test
MainCheck_NoCooldown ==
    /\ mainloop.pc = "check"
    /\ \E bright \in BOOLEAN :
          mainloop' = IF bright THEN [mainloop EXCEPT !.pc = "store"] ELSE MainScanning
    /\ UNCHANGED << clock, last_commit_ts, commits, worker, glob, lookups, seen, Rest >>

\* main: if now_ts - last_commit_ts.get(key, 0.0) >= COOLDOWN_SEC and bgr.mean() >= MIN_BRIGHTNESS
MainCheck ==
    /\ mainloop.pc = "check"
    /\ \E bright \in BOOLEAN :
          mainloop' = IF mainloop.now_ts - last_commit_ts[mainloop.key] >= COOLDOWN_SEC /\ bright
                      THEN [mainloop EXCEPT !.pc = "store"]
                      ELSE MainScanning
    /\ UNCHANGED << clock, last_commit_ts, commits, worker, glob, lookups, seen, Rest >>

\* main: last_commit_ts[key] = now_ts
MainStore ==
    /\ mainloop.pc = "store"
    /\ last_commit_ts' = [last_commit_ts EXCEPT ![mainloop.key] = mainloop.now_ts]
    /\ mainloop' = [mainloop EXCEPT !.pc = "commit"]
    /\ UNCHANGED << clock, commits, worker, glob, lookups, seen, Rest >>

\* main: out_jpg.write_bytes(...) (it may raise); _ensure_entry(key, v0, out_jpg);
\* _write_logs_and_results_page() (it may raise too: the lookup is then skipped)
MainCommit ==
    /\ mainloop.pc = "commit"
    /\ \E outcome \in { "write raised", "logs raised", "written" } :
          /\ IF outcome = "write raised"
             THEN UNCHANGED << commits, glob >>
             ELSE EnsureEntry(mainloop.key, mainloop.now_ts)
          /\ mainloop' = IF outcome = "written"
                         THEN [mainloop EXCEPT !.pc = "spawn"]
                         ELSE MainScanning
    /\ UNCHANGED << clock, last_commit_ts, worker, lookups, seen, Rest >>

\* main: if not price_lookup_inflight: price_lookup_inflight = True; Thread(...).start()
\* (one step: the only other writes of the flag are the lookups' resets to False)
MainSpawn ==
    /\ mainloop.pc = "spawn"
    /\ IF ~ glob.price_lookup_inflight
       THEN StartLookup(glob, mainloop.key)
       ELSE UNCHANGED << glob, lookups, seen >>
    /\ mainloop' = MainScanning
    /\ UNCHANGED << clock, last_commit_ts, commits, worker, Rest >>

\* main: Esc; finally: _FRAME_HUB.set(None) -- the only call of set
MainQuit ==
    /\ mainloop.pc = "scan"
    /\ mainloop' = [mainloop EXCEPT !.pc = "exit"]
    /\ glob' = [glob EXCEPT !.FRAME_HUB = None]
    /\ UNCHANGED << clock, last_commit_ts, commits, worker, lookups, seen, Rest >>

\* _price_lookup_thread: the try block ends, normally or in the except clause;
\* finally: price_lookup_inflight = False
LookupFinally ==
    /\ Alive
    /\ lookups.collect > 0
    /\ glob' = [glob EXCEPT !.price_lookup_inflight = FALSE]
    /\ lookups' = [lookups EXCEPT !.collect = @ - 1, !.logs = @ + 1]
    /\ UNCHANGED << clock, last_commit_ts, commits, mainloop, worker, seen, Rest >>

\* _price_lookup_thread: finally: _write_logs_and_results_page(); the thread ends
LookupEnd ==
    /\ Alive
    /\ lookups.logs > 0
    /\ lookups' = [lookups EXCEPT !.logs = @ - 1]
    /\ UNCHANGED << clock, last_commit_ts, commits, mainloop, worker, glob, seen, Rest >>

\* worker: frame = _FRAME_HUB.get_latest(); if frame is None: continue;
\* identify_product gave v; key = _key_for(upc, v); now_ts = time.time()
WorkerIdentified ==
    /\ worker.pc = "scan"
    /\ IF glob.FRAME_HUB = None
       THEN UNCHANGED worker
       ELSE \E k \in Keys \cup { None } :
               worker' = IF k = None
                         THEN WorkerScanning
                         ELSE [pc |-> "get", key |-> k, now_ts |-> clock, last_ts |-> 0]
    /\ UNCHANGED << clock, last_commit_ts, commits, mainloop, glob, lookups, seen, Rest >>

\* worker: last_ts = last_commit_ts.get(key, 0.0)
WorkerGet ==
    /\ worker.pc = "get"
    /\ worker' = [worker EXCEPT !.last_ts = last_commit_ts[worker.key], !.pc = "check"]
    /\ UNCHANGED << clock, last_commit_ts, commits, mainloop, glob, lookups, seen, Rest >>

\* worker: if now_ts - last_ts < COOLDOWN_SEC: continue
WorkerCheck ==
    /\ worker.pc = "check"
    /\ worker' = IF worker.now_ts - worker.last_ts < COOLDOWN_SEC
                  THEN WorkerScanning
                  ELSE [worker EXCEPT !.pc = "store"]
    /\ UNCHANGED << clock, last_commit_ts, commits, mainloop, glob, lookups, seen, Rest >>

\* worker: last_commit_ts[key] = now_ts
WorkerStore ==
    /\ worker.pc = "store"
    /\ last_commit_ts' = [last_commit_ts EXCEPT ![worker.key] = worker.now_ts]
    /\ worker' = [worker EXCEPT !.pc = "commit"]
    /\ UNCHANGED << clock, commits, mainloop, glob, lookups, seen, Rest >>

\* worker: out_jpg.write_bytes(...) (it may raise); entry = _ensure_entry(key, v, out_jpg)
WorkerCommit ==
    /\ worker.pc = "commit"
    /\ \E written \in BOOLEAN :
          IF written
          THEN /\ EnsureEntry(worker.key, worker.now_ts)
               /\ worker' = [worker EXCEPT !.pc = "spawn"]
          ELSE /\ UNCHANGED << commits, glob >>
               /\ worker' = WorkerScanning
    /\ UNCHANGED << clock, last_commit_ts, mainloop, lookups, seen, Rest >>

\* worker: if not price_lookup_inflight: price_lookup_inflight = True; Thread(...).start()
WorkerSpawn ==
    /\ worker.pc = "spawn"
    /\ IF ~ glob.price_lookup_inflight
       THEN StartLookup(glob, worker.key)
       ELSE UNCHANGED << glob, lookups, seen >>
    /\ worker' = WorkerScanning
    /\ UNCHANGED << clock, last_commit_ts, commits, mainloop, Rest >>

\* one step of _vision_worker, the one its position selects
VisionWorker ==
    /\ Alive
    /\ IF worker.pc = "scan" THEN WorkerIdentified
       ELSE IF worker.pc = "get" THEN WorkerGet
       ELSE IF worker.pc = "check" THEN WorkerCheck
       ELSE IF worker.pc = "store" THEN WorkerStore
       ELSE IF worker.pc = "commit" THEN WorkerCommit
       ELSE WorkerSpawn

InitScan ==
    /\ clip_vectors = Missing /\ clip_meta = Missing
    /\ clip_feats = Missing /\ clip_feats_norm = Missing
    /\ idx_vectors = Missing /\ idx_meta = Missing
    /\ q = <<1000, 0>>
    /\ topk = 2
    /\ result = NoResult
    /\ NoRun

NextScan ==
    \/ Tick
    \/ MainFrame \/ MainCheck \/ MainStore \/ MainCommit \/ MainSpawn \/ MainQuit
    \/ LookupFinally \/ LookupEnd
    \/ VisionWorker

SpecScan == InitScan /\ [][NextScan]_vars

\* the threads of dev_live_scan_cv keep running, and so does the main loop
\* while frames arrive
SpecScanFair ==
    /\ SpecScan
    /\ WF_vars(MainFrame) /\ WF_vars(MainCheck) /\ WF_vars(MainStore)
    /\ WF_vars(MainCommit) /\ WF_vars(MainSpawn)
    /\ WF_vars(LookupFinally) /\ WF_vars(LookupEnd)
    /\ WF_vars(VisionWorker)

\* ------------------------------------------------ dev_live_scan: the threads
\* what _prod_key gives for an identification ("" when it names nothing)
VisKeys == { "", "a", "b" }

\* f"VIS:{key}"
VisKeyFor(key) == IF key = "a" THEN "VIS:a" ELSE "VIS:b"

DlsRest == << clock, last_commit_ts, Rest >>

\* lock_obj is a threading.Lock: it is granted only when no thread holds it,
\* the thread that asks included
Free == glob.lock_obj = "free"

\* _auto_lock: with lock_obj: locked_keys.add(lock_key); _ensure_entry(lock_key, v, capture_path)
AutoLocked(gl, lock_key) == Entered([gl EXCEPT !.locked_keys = @ \cup { lock_key }], lock_key)

\* main: rgb = read_frame_rgb(cap); if rgb is None: continue
DlsMainRead ==
    /\ mainloop.pc = "scan"
    /\ \E got \in BOOLEAN :
          mainloop' = IF got THEN [mainloop EXCEPT !.pc = "acq_frame"] ELSE mainloop
    /\ UNCHANGED << commits, worker, glob, lookups, seen, DlsRest >>

\* main: with lock_obj: last_frame_rgb = rgb; then the barcode pass of the
\* frame (globals of the main loop only) up to the call of _auto_lock
DlsMainFrame ==
    /\ mainloop.pc = "acq_frame"
    /\ Free
    /\ \E upc \in Upcs \cup { None } :
          LET count == IF upc # None
                       THEN (IF upc = glob.last_upc THEN Bump(glob.upc_hit_count) ELSE 1)
                       ELSE glob.upc_hit_count
              last == IF upc # None THEN upc ELSE glob.last_upc
          IN /\ glob' = [glob EXCEPT !.last_frame_rgb = "frame",
                                     !.latest_upc = upc,
                                     !.upc_hit_count = count,
                                     !.last_upc = last]
             /\ seen' = [seen EXCEPT !.upc_streak = Streak(upc, glob.last_upc)]
             /\ mainloop' = IF count >= HITS_NEEDED /\ KeyFor(last) \notin glob.locked_keys
                            THEN [mainloop EXCEPT !.pc = "acq_autolock", !.key = KeyFor(last)]
                            ELSE MainScanning
    /\ UNCHANGED << commits, worker, lookups, DlsRest >>

\* main: _auto_lock(synth_v, bgr): with lock_obj: ...
DlsMainAutoLock ==
    /\ mainloop.pc = "acq_autolock"
    /\ Free
    /\ glob' = AutoLocked(glob, mainloop.key)
    /\ commits' = Append(commits, [key |-> mainloop.key, ts |-> clock])
    /\ mainloop' = [mainloop EXCEPT !.pc = "spawn"]
    /\ UNCHANGED << worker, lookups, seen, DlsRest >>

\* main: if not price_lookup_inflight: price_lookup_inflight = True; Thread(...).start()
DlsMainSpawn ==
    /\ mainloop.pc = "spawn"
    /\ IF ~ glob.price_lookup_inflight
       THEN StartLookup(glob, mainloop.key)
       ELSE UNCHANGED << glob, lookups, seen >>
    /\ mainloop' = MainScanning
    /\ UNCHANGED << commits, worker, DlsRest >>

\* worker: with lock_obj: frame = None if last_frame_rgb is None else last_frame_rgb.copy()
DlsWorkerFrame ==
    /\ worker.pc = "scan"
    /\ Free
    /\ worker' = IF glob.last_frame_rgb = None
                 THEN worker
                 ELSE [worker EXCEPT !.pc = "identify"]
    /\ UNCHANGED << commits, mainloop, glob, lookups, seen, DlsRest >>

\* worker: v = identify_product(...); if not v: continue; key = _prod_key(v)
DlsWorkerIdentify ==
    /\ worker.pc = "identify"
    /\ \E v \in VisKeys \cup { None } :
          worker' = IF v = None
                    THEN WorkerScanning
                    ELSE [worker EXCEPT !.pc = "acq_vision", !.key = v]
    /\ UNCHANGED << commits, mainloop, glob, lookups, seen, DlsRest >>

\* worker: with lock_obj: the hit count of the identification; when it locks
\* the item it calls _auto_lock with lock_obj still held
DlsWorkerCount ==
    LET key == worker.key
        count == IF key = glob.last_vision_key THEN Bump(glob.vision_hit_count) ELSE 1
        locks == key # "" /\ count >= HITS_NEEDED /\ VisKeyFor(key) \notin glob.locked_keys
    IN /\ glob' = IF key = ""
                  THEN glob
                  ELSE [glob EXCEPT !.last_vision_key = key,
                                    !.vision_hit_count = count,
                                    !.lock_obj = IF locks THEN "worker" ELSE "free"]
       /\ worker' = IF locks
                    THEN [worker EXCEPT !.pc = "acq_autolock"]
                    ELSE WorkerScanning
       /\ UNCHANGED << commits, lookups, seen >>

\* worker: _auto_lock(v, bgr): with lock_obj: ...; back in the outer block:
\* if not price_lookup_inflight: ...; the outer block ends
DlsWorkerAutoLock ==
    \E lock_key \in { VisKeyFor(worker.key) } \cup { KeyFor(upc) : upc \in Upcs } :
       /\ commits' = Append(commits, [key |-> lock_key, ts |-> clock])
       /\ IF ~ glob.price_lookup_inflight
          THEN StartLookup([AutoLocked(glob, lock_key) EXCEPT !.lock_obj = "free"], lock_key)
          ELSE /\ glob' = [AutoLocked(glob, lock_key) EXCEPT !.lock_obj = "free"]
               /\ UNCHANGED << lookups, seen >>
       /\ worker' = WorkerScanning

\* worker: lock_obj is granted to it, in the loop or inside _auto_lock
DlsWorkerWithLock ==
    /\ worker.pc \in { "acq_vision", "acq_autolock" }
    /\ Free
    /\ IF worker.pc = "acq_vision" THEN DlsWorkerCount ELSE DlsWorkerAutoLock
    /\ UNCHANGED << mainloop, DlsRest >>

\* _price_lookup_thread, up to `with lock_obj`: _collect_offers, the printing
\* of the offers, _download_image; any of them may raise and end the thread
DlsLookupCollect ==
    /\ lookups.collect > 0
    /\ \E raised \in BOOLEAN :
          lookups' = IF raised
                     THEN [lookups EXCEPT !.collect = @ - 1]
                     ELSE [lookups EXCEPT !.collect = @ - 1, !.acq = @ + 1]
    /\ UNCHANGED << commits, mainloop, worker, glob, seen, DlsRest >>

\* _price_lookup_thread: with lock_obj: the entry is updated (it may raise,
\* which ends the block and the thread); price_lookup_inflight = False
DlsLookupWithLock ==
    /\ lookups.acq > 0
    /\ Free
    /\ \E raised \in BOOLEAN :
          IF raised
          THEN /\ lookups' = [lookups EXCEPT !.acq = @ - 1]
               /\ UNCHANGED glob
          ELSE /\ lookups' = [lookups EXCEPT !.acq = @ - 1, !.logs = @ + 1]
               /\ glob' = [glob EXCEPT !.price_lookup_inflight = FALSE,
                                       !.lock_obj = "lookup"]
    /\ UNCHANGED << commits, mainloop, worker, seen, DlsRest >>

\* _price_lookup_thread: _write_logs_and_results_page(); the block ends
DlsLookupLogs ==
    /\ lookups.logs > 0
    /\ lookups' = [lookups EXCEPT !.logs = @ - 1]
    /\ glob' = [glob EXCEPT !.lock_obj = "free"]
    /\ UNCHANGED << commits, mainloop, worker, seen, DlsRest >>

InitDls ==
    /\ clip_vectors = Missing /\ clip_meta = Missing
    /\ clip_feats = Missing /\ clip_feats_norm = Missing
    /\ idx_vectors = Missing /\ idx_meta = Missing
    /\ q = <<1000, 0>>
    /\ topk = 2
    /\ result = NoResult
    /\ NoRun

NextDls ==
    \/ DlsMainRead \/ DlsMainFrame \/ DlsMainAutoLock \/ DlsMainSpawn
    \/ DlsWorkerFrame \/ DlsWorkerIdentify \/ DlsWorkerWithLock
    \/ DlsLookupCollect \/ DlsLookupWithLock \/ DlsLookupLogs

SpecDls == InitDls /\ [][NextDls]_vars

\* every thread of dev_live_scan keeps running; a thread that asks for
\* lock_obj gets it if the lock is free again and again
SpecDlsFair ==
    /\ SpecDls
    /\ WF_vars(DlsMainRead) /\ SF_vars(DlsMainFrame)
    /\ SF_vars(DlsMainAutoLock) /\ WF_vars(DlsMainSpawn)
    /\ SF_vars(DlsWorkerFrame) /\ WF_vars(DlsWorkerIdentify)
    /\ SF_vars(DlsWorkerWithLock)
    /\ WF_vars(DlsLookupCollect) /\ SF_vars(DlsLookupWithLock)
    /\ WF_vars(DlsLookupLogs)

\* build_index.py is run on any embeddings directory
InitSklearn ==
    /\ clip_vectors \in VecFiles
    /\ clip_meta \in MetaFiles
    /\ clip_feats = Missing /\ clip_feats_norm = Missing
    /\ idx_vectors = Missing /\ idx_meta = Missing
    /\ q = <<1000, 0>>
    /\ topk = 2
    /\ result = NoResult
    /\ NoRun

NextSklearn == SkStart \/ SkSaveVectors \/ SkSaveMeta \/ Stop

SpecSklearn == InitSklearn /\ [][NextSklearn]_vars

\* ------------------------------------------------- ui_app: the live scanner
ScanRest == << last_commit_ts, commits, mainloop, worker, glob, lookups, seen >>
UiRest == << files, query, result, locals, writer, prev, ScanRest, watcher, faissfiles >>

\* a second passes between two reruns of the script
UiTick ==
    /\ clock < StartTime + MaxTime
    /\ clock' = clock + 1
    /\ UNCHANGED << ui, UiRest >>

\* Debounce duplicates for a few seconds:
\* (upc != last_upc) or ((now - last_seen_ts) > DEBOUNCE_SECONDS)
Debounced(upc, lastUpc, lastTs, now) ==
    ~ (upc # lastUpc \/ now - lastTs > DEBOUNCE_SECONDS)

\* One rerun of the script: the button pressed (if any) is handled, then the
\* scanner block reads a frame, decodes it (upc, None when there is no frame
\* or no barcode) and price-matches it unless debounced; Clear Scans is
\* handled last.
UiRerun(button, upc) ==
    LET running == IF button = "start" THEN TRUE
                   ELSE IF button = "stop" THEN FALSE ELSE ss_running
        lastUpc == IF button = "start" THEN None ELSE ss_last_upc
        lastTs  == IF button = "start" THEN 0 ELSE ss_last_seen_ts
        match   == running /\ upc # None /\ ~ Debounced(upc, lastUpc, lastTs, clock)
        scans   == IF match THEN Append(ss_scans, [upc |-> upc, ts |-> clock])
                   ELSE ss_scans
    IN  /\ match => Len(price_matches) < MaxScans
        /\ ss_running' = running
        /\ ss_last_upc' = IF match THEN upc ELSE lastUpc
        /\ ss_last_seen_ts' = IF match THEN clock ELSE lastTs
        /\ price_matches' = IF match THEN Append(price_matches, [upc |-> upc, ts |-> clock])
                            ELSE price_matches
        /\ ss_scans' = IF button = "clear" THEN << >> ELSE scans
        /\ UNCHANGED << clock, UiRest >>

\* Start Scanner is pressed (the button is disabled while the scanner runs)
UiStart == ~ ss_running /\ \E upc \in Upcs \cup { None } : UiRerun("start", upc)

\* Stop Scanner is pressed (disabled while the scanner is stopped)
UiStop == ss_running /\ \E upc \in Upcs \cup { None } : UiRerun("stop", upc)

\* Clear Scans is pressed
UiClear == ss_scans # << >> /\ \E upc \in Upcs \cup { None } : UiRerun("clear", upc)

\* st_autorefresh reruns the script while the scanner runs
UiRefresh == ss_running /\ \E upc \in Upcs \cup { None } : UiRerun("none", upc)

InitUi ==
    /\ clip_vectors = Missing /\ clip_meta = Missing
    /\ clip_feats = Missing /\ clip_feats_norm = Missing
    /\ idx_vectors = Missing /\ idx_meta = Missing
    /\ q = <<1000, 0>>
    /\ topk = 2
    /\ result = NoResult
    /\ NoRun

NextUi == UiTick \/ UiStart \/ UiStop \/ UiClear \/ UiRefresh

SpecUi == InitUi /\ [][NextUi]_vars

\* ============================================================ search claims
MatchImpls == { "visual_scan", "instant" }
NumpyImpls == { "search_faiss", "visual_to_proof" }

\* the index a match_image call reads is well formed: both files, same rows
ValidIndex ==
    /\ clip_vectors.exists /\ clip_meta.exists
    /\ Len(clip_vectors.rows) = Len(clip_meta.rows)

\* the rows the last call searched, and their number
Searched ==
    IF result.impl \in NumpyImpls
    THEN NormalizeEps(FeatsPath(clip_feats_norm, clip_feats).rows)
    ELSE clip_vectors.rows

SearchedOk ==
    /\ Len(q) = IndexDim
    /\ \/ result.impl \in MatchImpls /\ ValidIndex
       \/ result.impl \in NumpyImpls /\ FeatsPath(clip_feats_norm, clip_feats).exists

Score(r) == Dot(Searched[r], q)

RowIdx == [j \in 1..Len(result.rows) |-> result.rows[j].idx]

ExampleIndex == << <<1000, 0>>, <<0, 1000>>, <<707, 707>> >>

\* C1: on a non-empty index of N unit vectors, for a query of the same
\* dimension and k >= 1, match_image returns min(k, N) distinct rows, each
\* with its dot product as score, in descending order of score, and no row
\* left out has a greater score than a returned one; the index [1,0], [0,1],
\* [0.707,0.707] queried with [1,0] gives rows 1, 3, 2.
C1_TopKDescending ==
    (result.impl \in MatchImpls /\ SearchedOk /\ Len(clip_vectors.rows) >= 1) =>
        /\ result.status = "ok"
        /\ Len(result.rows) = Min(topk, Len(clip_vectors.rows))
        /\ \A j \in 1..Len(result.rows) :
              /\ result.rows[j].idx \in 1..Len(clip_vectors.rows)
              /\ result.rows[j].score = Score(result.rows[j].idx)
        /\ \A a, b \in 1..Len(result.rows) :
              a # b => result.rows[a].idx # result.rows[b].idx
        /\ \A j \in 1..(Len(result.rows) - 1) :
              result.rows[j].score >= result.rows[j + 1].score
        /\ \A r \in 1..Len(clip_vectors.rows) :
              r \notin Range(RowIdx) =>
                  \A j \in 1..Len(result.rows) : Score(r) <= result.rows[j].score
        /\ (clip_vectors.rows = ExampleIndex /\ q = <<1000, 0>> /\ topk >= 3) =>
              RowIdx = <<1, 3, 2>>

C1_Witness ==
    /\ result.impl = "visual_scan" /\ result.status = "ok"
    /\ clip_vectors.rows = ExampleIndex /\ q = <<1000, 0>> /\ topk = 3
    /\ RowIdx = <<1, 3, 2>>

\* C2: on an index of N >= 1 rows, for k >= 1, match_image and search_numpy
\* return exactly min(k, N) results, all N rows when k > N, without error.
C2_ExactlyMinKN ==
    LET n == Len(Searched) IN
    (result.impl \in MatchImpls \cup NumpyImpls /\ SearchedOk /\ n >= 1) =>
        /\ result.status = "ok"
        /\ Len(result.rows) = Min(topk, n)
        /\ \A j \in 1..Len(result.rows) : result.rows[j].idx \in 1..n

C2_Witness ==
    /\ result.impl = "search_faiss" /\ result.status = "ok"
    /\ Len(Searched) >= 1 /\ topk > Len(Searched)
    /\ Len(result.rows) = Len(Searched)

\* C3: rows with equal scores are returned in index order: of two returned
\* rows with the same score the lower row index has the better rank, and a
\* row left out never ties with a returned row of higher index.
C3_TiesInIndexOrder ==
    (result.impl \in MatchImpls \cup NumpyImpls /\ SearchedOk /\ result.status = "ok") =>
        /\ \A a, b \in 1..Len(result.rows) :
              (a < b /\ result.rows[a].score = result.rows[b].score)
                  => result.rows[a].idx < result.rows[b].idx
        /\ \A r \in 1..Len(Searched) :
              r \notin Range(RowIdx) =>
                  \A j \in 1..Len(result.rows) :
                      Score(r) = result.rows[j].score => result.rows[j].idx < r

\* C4: a search of an index of zero rows (both files present) returns an
\* empty list and raises nothing, in both match_image functions.
C4_EmptyIndexEmptyResult ==
    (result.impl \in MatchImpls /\ SearchedOk /\ Len(clip_vectors.rows) = 0) =>
        result.status = "ok" /\ result.rows = << >>

C4_Witness ==
    /\ result.impl = "visual_scan" /\ result.status = "ok"
    /\ clip_vectors.exists /\ clip_meta.exists
    /\ Len(clip_vectors.rows) = 0 /\ Len(clip_meta.rows) = 0
    /\ result.rows = << >>

\* C5: when the vector file and the metadata file have different row counts,
\* match_image raises and returns no ranked result.
C5_MismatchRefused ==
    ( /\ result.impl \in MatchImpls
      /\ clip_vectors.exists /\ clip_meta.exists
      /\ Len(clip_vectors.rows) # Len(clip_meta.rows) ) =>
        result.status = "error"

\* C11: a list returned by match_image has ranks 1, 2, ..., n in list order,
\* and each entry pairs the dot product of the query with one vector row and
\* the metadata row at the same position.
C11_RankScoreMetaAligned ==
    (result.impl \in MatchImpls /\ result.status = "ok") =>
        \A j \in 1..Len(result.rows) :
            /\ result.rows[j].rank = j
            /\ \E r \in 1..Min(Len(clip_vectors.rows), Len(clip_meta.rows)) :
                  /\ result.rows[j].score = Dot(clip_vectors.rows[r], q)
                  /\ result.rows[j].meta = clip_meta.rows[r]
                  /\ result.rows[j].idx = r

C11_Witness ==
    /\ result.impl = "instant" /\ result.status = "ok"
    /\ Len(result.rows) = 3
    /\ RowIdx = <<3, 1, 2>>
    /\ result.rows[1].meta = 3 /\ result.rows[1].score = Scale * Scale

\* the score of a unit vector with itself, and the error the fixed-point
\* components allow on it
One == Scale * Scale
ScoreTol == IndexDim * Scale

\* the rows of the searched index equal to the query
SelfRows == { r \in 1..Len(Searched) : Searched[r] = q }

\* C12 (as claimed): when the query equals row i exactly, row i is at rank 1
\* with score 1.0, for every k >= 1, also when another row is identical to it.
C12_SelfMatchRankOne ==
    (result.impl \in MatchImpls \cup NumpyImpls /\ SearchedOk /\ result.status = "ok") =>
        \A r \in SelfRows :
            /\ Len(result.rows) >= 1
            /\ result.rows[1].idx = r
            /\ result.rows[1].score >= One - ScoreTol
            /\ result.rows[1].score <= One + ScoreTol

\* C12 (amended): when the query equals row i exactly, rank 1 holds a row of
\* score 1.0 (within tolerance), and that row is row i itself unless another
\* row scores as high as row i.
C12_SelfMatchUpToTies ==
    LET self == SelfRows
        sc == [r \in 1..Len(Searched) |-> Score(r)]
    IN
    (result.impl \in MatchImpls \cup NumpyImpls /\ SearchedOk /\ self # {}) =>
        /\ result.status = "ok"
        /\ Len(result.rows) >= 1
        /\ result.rows[1].score >= One - ScoreTol
        /\ result.rows[1].score <= One + ScoreTol
        /\ \A r \in self :
              (\A o \in DOMAIN sc : o # r => sc[o] < sc[r])
                  => result.rows[1].idx = r

C12_Witness ==
    /\ result.impl = "visual_scan" /\ result.status = "ok"
    /\ clip_vectors.rows = << <<0, 1000>>, <<1000, 0>>, <<707, 707>> >>
    /\ q = <<707, 707>> /\ topk = 1
    /\ RowIdx = <<3>>

\* C13: match_image returns an empty list only for an index of zero rows:
\* with a missing file, differing row counts, a query of the wrong dimension
\* or an unreadable photo, the caller gets an error, never an empty list.
C13_EmptyOnlyForEmptyIndex ==
    (result.impl \in MatchImpls /\ result.status = "ok" /\ result.rows = << >>) =>
        /\ ValidIndex
        /\ Len(clip_vectors.rows) = 0
        /\ Len(q) = IndexDim

\* C14: a query whose dimension differs from the dimension of the index
\* vectors is rejected with an error by match_image and by search_numpy; no
\* list is returned for it, truncated or padded.
C14_WrongDimensionRejected ==
    (result.impl \in MatchImpls \cup NumpyImpls /\ Len(q) # IndexDim) =>
        result.status = "error" /\ result.rows = << >>

C14_Witness ==
    /\ result.impl = "search_faiss" /\ result.status = "error"
    /\ q = <<1000, 0, 0>>
    /\ clip_feats.exists /\ Len(clip_feats.rows) = 2

\* C15: with the vector file or the metadata file missing, match_image
\* raises to its caller in the one call made and returns no list.
C15_MissingFileRaises ==
    (result.impl \in MatchImpls /\ (~clip_vectors.exists \/ ~clip_meta.exists)) =>
        result.status = "error" /\ result.rows = << >>

C15_Witness ==
    /\ result.impl = "instant" /\ result.status = "error"
    /\ clip_vectors.exists /\ ~clip_meta.exists
    /\ Len(clip_vectors.rows) = 0 /\ Len(q) = IndexDim

\* the rows of a file reordered by the permutation p
PermuteRows(rows, p) == [j \in 1..Len(rows) |-> rows[p[j]]]

\* what the caller sees of a list: the (score, metadata) pairs, and the scores
Pairs(rws) == [j \in 1..Len(rws) |-> << rws[j].score, rws[j].meta >>]
Scores(rws) == [j \in 1..Len(rws) |-> rws[j].score]

\* the outcomes of the match_image that made the last call, on another index
MatchOutcomes(vf, mf) ==
    IF result.impl = "visual_scan"
    THEN VisualScanMatchImage(vf, mf, q, topk)
    ELSE InstantMatchImage(vf, mf, q, topk)

\* the outcomes of the same call on the index reordered by some permutation
PermutedOutcomes ==
    UNION { MatchOutcomes(File(PermuteRows(clip_vectors.rows, p)),
                          File(PermuteRows(clip_meta.rows, p))) :
            p \in Perms(Len(clip_vectors.rows)) }

\* no other row of the index has this score
Untied(sc) == Cardinality({ r \in 1..Len(clip_vectors.rows) : Score(r) = sc }) = 1

\* C16 (as claimed): with the vector rows and the metadata rows reordered by
\* the same permutation, match_image returns the same sequence of
\* (score, metadata) pairs as before.
C16_PermutationInvariant ==
    (result.impl \in MatchImpls /\ ValidIndex /\ result.status = "ok") =>
        \A o \in PermutedOutcomes :
            o.status = "ok" /\ Pairs(o.rows) = Pairs(result.rows)

\* C16 (amended): the reordered index gives the same sequence of scores, and
\* the same metadata at every rank whose score no other row of the index has.
C16_PermutationInvariantUpToTies ==
    (result.impl \in MatchImpls /\ ValidIndex /\ result.status = "ok") =>
        LET scores == Scores(result.rows)
            untied == { j \in 1..Len(result.rows) : Untied(result.rows[j].score) }
        IN  \A o \in PermutedOutcomes :
                /\ o.status = "ok"
                /\ Scores(o.rows) = scores
                /\ \A j \in untied : o.rows[j].meta = result.rows[j].meta

C16_Witness ==
    /\ result.impl = "visual_scan" /\ result.status = "ok"
    /\ clip_vectors.rows = << <<0, 1000>>, <<707, 707>>, <<1000, 0>> >>
    /\ q = <<1000, 0>> /\ topk = 2
    /\ Pairs(result.rows) = << <<One, 3>>, <<707000, 2>> >>

\* =========================================================== builder claims
\* the two files of the index the current builder writes
VecOut ==
    IF builder = "bvi" THEN clip_feats
    ELSE IF builder = "sklearn" THEN idx_vectors
    ELSE IF builder = "watcher" THEN embeddings_npz
    ELSE clip_vectors

MetaOut ==
    IF builder = "sklearn" THEN idx_meta
    ELSE IF builder = "watcher" THEN catalog_csv
    ELSE clip_meta

\* C6: after a builder run that completes and writes an index, the written
\* vector array and the written metadata table have the same number of rows.
C6_WrittenRowsEqual ==
    pc = "saved" => Len(VecOut.rows) = Len(MetaOut.rows)

\* C7: the index written by run_embed has exactly one row per image that
\* decoded: the metadata rows are the readable images of the list, in order,
\* and there are as many vectors.
C7_OneRowPerDecodedImage ==
    (builder \in { "instant", "bvi" } /\ pc = "saved") =>
        /\ MetaOut.rows = Decoded(items)
        /\ Len(VecOut.rows) = Len(Decoded(items))

\* C8: a run that embeds zero images (no image, or none readable) ends by
\* reporting the empty condition and writes no file.
C8_NoArtifactWhenEmpty ==
    (builder \in EmbedBuilders /\ Len(Decoded(items)) = 0) =>
        /\ \A f \in FileNames : writer[f] # "run"
        /\ pc # "saved"

\* C9: an unreadable image never aborts a build: the run does not fail, and
\* once the loop is over every image of the list has been taken, the ones
\* after an unreadable image included.
C9_UnreadableSkipped ==
    builder \in EmbedBuilders =>
        /\ pc # "failed"
        /\ pc \in { "tail", "save1", "save2", "saved", "empty" } => i = Len(items)

C9_Witness ==
    /\ builder = "instant" /\ pc = "saved"
    /\ Len(items) >= 2
    /\ ~items[1].readable /\ items[2].readable
    /\ i = Len(items)
    /\ 2 \in Range(clip_meta.rows)

\* C10: a match_image call made at any point during or after a rebuild either
\* raises or ranks vectors and metadata written by the same build.
C10_SameBuildPaired ==
    (result.impl \in MatchImpls /\ result.status = "ok" /\ Len(result.rows) >= 1) =>
        writer["clip_vectors"] = writer["clip_meta"]

\* the embedding of the image with this code, encoded on its own
EmbeddingOf(code) == NormalizeTorch(<< RawEmbed(code) >>)[1]

\* C22: in the index a complete run of an embedding builder wrote, the vector
\* at every row position is the embedding of the image the metadata row at
\* that position names (and the two files have the same number of rows),
\* whatever the batch boundaries and the unreadable images skipped.
C22_RowsNameTheirImage ==
    (builder \in IndexBuilders /\ pc = "saved") =>
        /\ Len(VecOut.rows) = Len(MetaOut.rows)
        /\ \A j \in 1..Len(MetaOut.rows) : VecOut.rows[j] = EmbeddingOf(MetaOut.rows[j])
        /\ builder = "watcher" => embeddings_npz.ids = catalog_csv.rows

C22_Witness ==
    /\ builder \in { "bvi", "watcher" } /\ pc = "saved"
    /\ Len(items) = 3
    /\ items[1].readable /\ ~ items[2].readable /\ items[3].readable
    /\ MetaOut.rows = << 1, 3 >>
    /\ VecOut.rows = << EmbeddingOf(1), EmbeddingOf(3) >>

\* C17: when build_visual_index.run_embed or tools/build_index.main is run a
\* second time over the same images, the metadata file holds the same set of
\* rows as after the first run: none added, none lost, none changed.
C17_RebuildSameRows ==
    (prev.taken /\ pc \in { "saved", "empty" }) =>
        /\ clip_meta.exists = prev.file.exists
        /\ Range(clip_meta.rows) = Range(prev.file.rows)
        /\ Len(clip_meta.rows) = Len(prev.file.rows)

C17_Witness ==
    /\ prev.taken /\ pc = "saved" /\ builder = "tools"
    /\ Len(clip_meta.rows) = 2
    /\ clip_meta.rows # prev.file.rows
    /\ \E j \in 1..Len(items) : ~items[j].readable

\* a step in which match_image is called and returns
IsMatchCall == result.impl = "none" /\ result'.impl \in MatchImpls

\* C18: a match_image call writes neither file of the index and leaves
\* nothing behind but its return value, and what it returns, first call or
\* not, is an outcome of that function on the index, query and k at hand.
C18_SearchReadOnlyStateless ==
    [][IsMatchCall =>
          /\ files' = files
          /\ << query, locals, writer, prev, scan, more >>' = << query, locals, writer, prev, scan, more >>
          /\ result' \in IF result'.impl = "visual_scan"
                          THEN VisualScanMatchImage(clip_vectors, clip_meta, q, topk)
                          ELSE InstantMatchImage(clip_vectors, clip_meta, q, topk)]_vars

C18_Witness ==
    /\ result.impl = "instant" /\ result.status = "ok"
    /\ Len(clip_vectors.rows) = 2 /\ Len(clip_meta.rows) = 3
    /\ Len(result.rows) = 2

\* a row of L2 norm 1 within tolerance (a NaN row has no norm)
IsUnitRow(row) ==
    /\ \A c \in 1..Len(row) : row[c] # NaN
    /\ Dot(row, row) >= One - ScoreTol
    /\ Dot(row, row) <= One + ScoreTol

\* the vector arrays the normalising builders persist
NormalizedOut == { <<"idx_vectors", idx_vectors>>, <<"clip_feats_norm", clip_feats_norm>>,
                   <<"clip_feats", clip_feats>>, <<"clip_vectors", clip_vectors>> }

\* C19: every row of a vector array persisted by a builder has L2 norm 1
\* within tolerance, a row whose raw embedding has norm 0 included; no
\* normalisation step divides by zero.
C19_PersistedRowsUnit ==
    \A f \in NormalizedOut :
        writer[f[1]] = "run" =>
            \A j \in 1..Len(f[2].rows) : IsUnitRow(f[2].rows[j])

C21_NoRematchWithinDebounce ==
    \A a, b \in 1..Len(price_matches) :
        (a < b /\ price_matches[a].upc = price_matches[b].upc) =>
            price_matches[b].ts - price_matches[a].ts > DEBOUNCE_SECONDS

\* ============================================================= faiss claims
\* the ordered row positions a set of search outcomes returns
Positions(outcomes) ==
    { IF r.status = "ok" THEN [j \in 1..Len(r.rows) |-> r.rows[j].idx] ELSE << "raised" >> :
      r \in outcomes }

\* C23: after any sequence of build_faiss_index runs, faiss.index holds exactly
\* the rows of clip_feats_norm.npy, as many as num_items of faiss.meta.json,
\* and the FAISS backend returns the same ordered row positions as the NumPy
\* fallback for the query and the topk of the call.
C23_FaissSameAsFallback ==
    faiss_index.exists =>
        /\ faiss_index.rows = clip_feats_norm.rows
        /\ Len(faiss_index.rows) = faiss_meta.num_items
        /\ Positions(SearchFaiss(TRUE, faiss_index, q, topk))
             = Positions(SearchNumpyFaiss(clip_feats_norm, clip_feats, q, topk))


\* the worker has a frame: it is past its call of _FRAME_HUB.get_latest()
WorkerHasFrame == worker.pc # "scan"

\* C28: if the main loop keeps reading frames, the vision worker eventually
\* obtains a frame from _FRAME_HUB.get_latest() and runs identify_product.
C28_WorkerGetsFrame == ([]Alive) => <>WorkerHasFrame


LookupsRunning == lookups.collect + lookups.acq + lookups.logs

\* the keys dev_live_scan can lock
LockKeys == { KeyFor(upc) : upc \in Upcs } \cup { VisKeyFor(key) : key \in VisKeys \ { "" } }

\* C24: in dev_live_scan no thread waits forever for lock_obj: every
\* acquisition by the main loop, by the vision worker (the one inside
\* _auto_lock included) or by a price-lookup thread is eventually granted.
C24_LockAlwaysGranted ==
    /\ \A p \in { "acq_frame", "acq_autolock" } : (mainloop.pc = p) ~> (mainloop.pc # p)
    /\ \A p \in { "acq_vision", "acq_autolock" } : (worker.pc = p) ~> (worker.pc # p)
    /\ \A n \in 1..Cardinality(LockKeys) : (lookups.acq = n) ~> (lookups.acq < n)

\* C25: in both live scanners at most one price-lookup thread runs at any time.
C25_OneLookupAtATime == LookupsRunning <= 1

\* the vision worker waits for lock_obj while it holds it (see C24)
WorkerStuck == worker.pc = "acq_autolock"

\* C26: in dev_live_scan every key added to locked_keys eventually has a
\* price-lookup thread started for it (in the runs that the worker's wait for
\* lock_obj does not stop).
C26_LockedKeyLookedUp ==
    \A k \in LockKeys : (k \in glob.locked_keys) ~> (k \in seen.looked_up \/ WorkerStuck)

\* C27: in both live scanners price_lookup_inflight never stays True with no
\* lookup thread running: it is False once the thread has ended, however it ended.
C27_FlagClearedAtEnd == glob.price_lookup_inflight => LookupsRunning > 0

\* C29: in both live scanners an item is locked only after HITS_NEEDED
\* consecutive detections of its key: a frame with no barcode or with another
\* barcode restarts the count, and a single identification never commits.
C29_LockAfterConsecutiveHits ==
    /\ mainloop.pc \in { "check", "store", "commit", "acq_autolock" } =>
          seen.upc_streak >= HITS_NEEDED
    /\ worker.pc \in { "store", "commit", "acq_autolock" } =>
          glob.vision_hit_count >= HITS_NEEDED

====
